---- MODULE Spec2Model ----
(***************************************************************************)
(* A model of src/app.py, the Text-to-Solution Generator.                  *)
(*                                                                         *)
(* The script of app.py is run from top to bottom once per user event of   *)
(* a browser session, each session in a thread of its own.  A run is       *)
(* modelled as the steps between the points where it waits on the network, *)
(* touches state other sessions share, or can be stopped:                  *)
(*   TopSection      lines 159-200  no Generate click: the button is False *)
(*   GenerateStart   lines 176-184  guards, current_question               *)
(*   GenerateReturn  lines 184-190  generate_content returned or raised    *)
(*   SaveWrite       lines 191, 84-100  qa_collection.add                  *)
(*   ClearCache      line  194      st.cache_data.clear()                  *)
(*   HistoryLookup   lines 204-216  lookup of the cached history list      *)
(*   HistoryRead     lines 108-123  the Firestore query, on a miss         *)
(*   HistoryFill     lines 102, 216 the list is stored in the cache        *)
(*   PaginateStart   lines 218-233  page count, Previous                   *)
(*   PaginateLabel   line  235      the "Page X of Y" label                *)
(*   PaginateEnd     lines 237-257  Next, the slice, the reset and rerun   *)
(* An event of the session's browser that arrives while its run is at an   *)
(* st.* call stops that run there and starts the next one.                 *)
(* Sessions share the process-wide configuration, the Firestore            *)
(* collection and the st.cache_data entry of get_past_qa_from_firestore.   *)
(*                                                                         *)
(* Texts are sequences of tokens: " " is a whitespace character, "x" any   *)
(* other character, and the fixed phrases of the source are one token      *)
(* each.                                                                   *)
(***************************************************************************)
EXTENDS Integers, Sequences, FiniteSets, TLC

VARIABLES
    GEMINI_API_KEY,       \* line 65: TRUE iff a non-empty key was loaded
    model,                \* lines 67-77: TRUE iff model is not None
    firebase_initialized, \* line 46 (db is a client exactly when it is TRUE)
    store,                \* collection q_and_a, in insertion order
    clock,                \* last server timestamp handed out
    appends,              \* number of documents added by the program
    deletes,              \* number of out-of-band deletions
    cache,                \* st.cache_data entry of get_past_qa_from_firestore
    pc,                   \* per session: position of the script run
    trigger,              \* per session: the event the current run serves
    user_question,        \* per session: content of the text area
    current_question,     \* st.session_state.current_question
    current_solution,     \* st.session_state.current_solution
    solution_generated,   \* st.session_state.solution_generated
    history_page,         \* st.session_state.history_page (absent = 1)
    notice,               \* message of the Generate handler in this run
    called,               \* generate_solution was invoked in this run
    saved,                \* timestamp of the document this run added, or 0
    read_status,          \* how this run's history list was obtained
    past_qas,             \* the list the history section obtained
    label_page,           \* X of the "Page X of Y" label, 0 if not written
    total_pages,          \* Y of the label, 0 if not written
    current_page_qas,     \* the records shown by the history section
    buttons,              \* per session: pagination buttons on the page
    fetched,              \* per session: what the running query returned
    cleared               \* per session: clear() ran since its lookup missed

config == <<GEMINI_API_KEY, model, firebase_initialized>>
shared == <<store, clock, appends, deletes, cache>>
session == <<current_question, current_solution, solution_generated, history_page>>
elements == <<label_page, buttons>>
display == <<notice, called, saved, read_status, past_qas, elements,
             total_pages, current_page_qas>>
inflight == <<fetched, cleared>>
vars == <<config, shared, pc, trigger, user_question, session, display, inflight>>

(***************************************************************************)
(* Bounds of the model and constants of the program.                       *)
(***************************************************************************)
MaxSeed == 12
MaxAppend == 1
MaxDeletes == 1
items_per_page == 5

(***************************************************************************)
(* Texts.                                                                  *)
(***************************************************************************)
Sentinel == <<"Sorry, I couldn't generate a solution">>
AtThisTime == <<" at this time. Error: ">>
ModelNotInitialized == <<"Error: Gemini model not initialized.">>
PleaseEnter == <<"Please enter a question.">>

Questions == {<<>>, <<" ">>, <<" ", "x">>}
Replies == {[raised |-> FALSE, text |-> <<>>],
            [raised |-> FALSE, text |-> <<"x">>],
            [raised |-> TRUE, text |-> <<"x">>]}

RECURSIVE lstrip(_)
lstrip(t) == IF t # <<>> /\ Head(t) = " " THEN lstrip(Tail(t)) ELSE t

RECURSIVE rstrip(_)
rstrip(t) ==
    IF t # <<>> /\ t[Len(t)] = " " THEN rstrip(SubSeq(t, 1, Len(t) - 1)) ELSE t

stripNothing(t) == t

strip(t) == rstrip(lstrip(t))

startswith(t, prefix) ==
    Len(t) >= Len(prefix) /\ SubSeq(t, 1, Len(prefix)) = prefix

Min(a, b) == IF a < b THEN a ELSE b

\* Python's seq[a:b] for 0 <= a <= b
PySlice(seq, a, b) == SubSeq(seq, a + 1, Min(b, Len(seq)))

(***************************************************************************)
(* The Firestore collection and the history read.                          *)
(***************************************************************************)
Seed(n) ==
    [i \in 1..n |-> [question |-> <<"x">>, solution |-> <<"x">>, timestamp |-> i]]

NewDoc(question, solution) ==
    [question |-> question, solution |-> solution, timestamp |-> clock + 1]

addOverwrite(collection, doc) == <<doc>>

\* line 92: qa_collection.add(...)
add(collection, doc) == Append(collection, doc)

\* lines 84-100: the value save_qa_to_firestore returns
save_qa_to_firestore(question, solution, write_raises) ==
    IF ~firebase_initialized
    THEN FALSE
    ELSE IF question = <<>> \/ solution = <<>>
         THEN FALSE
         ELSE ~write_raises

\* line 118: datetime.isoformat()
isoformat(ts) == <<"iso", ts>>

\* lines 115-119: doc.to_dict() with the timestamp made serializable
to_dict(doc) ==
    [question |-> doc.question, solution |-> doc.solution,
     timestamp |-> isoformat(doc.timestamp)]

\* lines 109-111: order_by('timestamp', direction=DESCENDING)
RECURSIVE order_by_desc(_)
order_by_desc(docs) ==
    IF docs = <<>>
    THEN <<>>
    ELSE LET i == CHOOSE k \in 1..Len(docs) :
                     \A j \in 1..Len(docs) : docs[j].timestamp <= docs[k].timestamp
         IN  <<docs[i]>> \o
             order_by_desc(SubSeq(docs, 1, i - 1) \o SubSeq(docs, i + 1, Len(docs)))

\* lines 103-123: the body of get_past_qa_from_firestore
get_past_qa_body(read_raises) ==
    IF ~firebase_initialized
    THEN <<>>
    ELSE IF read_raises
         THEN <<>>
         ELSE LET docs == order_by_desc(store)
              IN  [i \in 1..Len(docs) |-> to_dict(docs[i])]

\* what the body returned, with whether it went through the except branch
Fetched(read_raises) ==
    [value |-> get_past_qa_body(read_raises), faulted |-> read_raises]

NothingFetched == [value |-> <<>>, faulted |-> FALSE]

\* line 102: the entry st.cache_data stores for a returned value
cache_entry(result) == <<result>>

(***************************************************************************)
(* Solution generation.                                                    *)
(***************************************************************************)
\* lines 127-149; reply is what model.generate_content does
generate_solution(question, reply) ==
    IF ~model
    THEN ModelNotInitialized
    ELSE IF question = <<>>
         THEN PleaseEnter
         ELSE IF reply.raised
              THEN Sentinel \o AtThisTime \o reply.text
              ELSE reply.text

save_any_text(solution) == solution # <<>>

\* line 189
generation_succeeded(solution) ==
    solution # <<>> /\ ~startswith(solution, Sentinel)

(***************************************************************************)
(* Pagination, lines 222-249.                                              *)
(***************************************************************************)
\* line 224
page_count(total_items) == (total_items + items_per_page - 1) \div items_per_page

\* lines 231-233
previous(page) == IF page > 1 THEN page - 1 ELSE page

next_unclamped(page, pages) == page + 1

\* lines 237-239
next(page, pages) == IF page < pages THEN page + 1 ELSE page

\* lines 241-243
page_slice(list, page) ==
    PySlice(list, (page - 1) * items_per_page,
            (page - 1) * items_per_page + items_per_page)

never_empty_page(slice, page) == FALSE

\* line 246
on_empty_page(slice, page) == slice = <<>> /\ page > 1

keep_page(page) == page

\* line 247
page_after_reset(page) == 1

(***************************************************************************)
(* User events.  An event starts one run of the script.                    *)
(***************************************************************************)
Sessions == DOMAIN pc

\* where a run is at, or on its way to, an st.* call: an event that arrives
\* stops it there (161-174 at the top, 183 and 148 while generating, 192
\* before clear(), 205-214, 122 in a query that raised, 219-231, 235, 237)
Interruptible(s) ==
    \/ pc[s] \in {"idle", "script", "generating", "clear", "history", "render",
                  "paged", "label"}
    \/ pc[s] = "filling" /\ fetched[s].faulted

\* a run starts at the top of the script: its local names are unbound and
\* it has shown no message; the label and the buttons of the run before it
\* stay on the page until it replaces them
NewRun(s, event) ==
    /\ pc' = [pc EXCEPT ![s] = "script"]
    /\ trigger' = [trigger EXCEPT ![s] = event]
    /\ notice' = [notice EXCEPT ![s] = "none"]
    /\ called' = [called EXCEPT ![s] = FALSE]
    /\ saved' = [saved EXCEPT ![s] = 0]
    /\ read_status' = [read_status EXCEPT ![s] = "off"]
    /\ past_qas' = [past_qas EXCEPT ![s] = <<>>]
    /\ total_pages' = [total_pages EXCEPT ![s] = 0]
    /\ current_page_qas' = [current_page_qas EXCEPT ![s] = <<>>]
    /\ fetched' = [fetched EXCEPT ![s] = NothingFetched]
    /\ cleared' = [cleared EXCEPT ![s] = FALSE]

\* the run that is stopped leaves nothing behind it but what it has written
StartRun(s, event) ==
    /\ Interruptible(s)
    /\ NewRun(s, event)
    /\ UNCHANGED elements

\* line 176: the "Generate Solution" button, with the text area's content
\* (no further click once MaxAppend documents were added)
ClickGenerate(s, q) ==
    /\ appends < MaxAppend
    /\ StartRun(s, "generate")
    /\ user_question' = [user_question EXCEPT ![s] = q]
    /\ UNCHANGED <<config, shared, session>>

\* line 231: the "Previous" button, when it is on the page
ClickPrevious(s) ==
    /\ "previous" \in buttons[s]
    /\ StartRun(s, "previous")
    /\ UNCHANGED <<config, shared, user_question, session>>

\* line 237: the "Next" button, when it is on the page
ClickNext(s) ==
    /\ "next" \in buttons[s]
    /\ StartRun(s, "next")
    /\ UNCHANGED <<config, shared, user_question, session>>

\* a page load or any other event that reruns the script with no button
Reload(s) ==
    /\ StartRun(s, "none")
    /\ UNCHANGED <<config, shared, user_question, session>>

(***************************************************************************)
(* The script run: the Generate handler.                                   *)
(***************************************************************************)
\* the handler ends with this message, without a save
EndHandler(s, message) ==
    /\ notice' = [notice EXCEPT ![s] = message]
    /\ pc' = [pc EXCEPT ![s] = "history"]

\* lines 159-200 in a run no Generate click started: the button is False
TopSection(s) ==
    /\ pc[s] = "script"
    /\ trigger[s] # "generate"
    /\ EndHandler(s, "none")
    /\ UNCHANGED <<config, shared, trigger, user_question, session, called,
                   saved, read_status, past_qas, elements, total_pages,
                   current_page_qas, inflight>>

\* lines 176-184: the guards of the handler, current_question, and the
\* call of generate_solution, which waits in model.generate_content
GenerateStart(s) ==
    /\ pc[s] = "script"
    /\ trigger[s] = "generate"
    /\ UNCHANGED <<config, shared, trigger, user_question, current_solution,
                   solution_generated, history_page, saved, read_status,
                   past_qas, elements, total_pages, current_page_qas, inflight>>
    /\ IF ~GEMINI_API_KEY
       THEN /\ EndHandler(s, "error: API key not configured")
            /\ UNCHANGED <<current_question, called>>
       ELSE IF strip(user_question[s]) = <<>>
       THEN /\ EndHandler(s, "warning: please enter a question")
            /\ UNCHANGED <<current_question, called>>
       ELSE /\ current_question' = [current_question EXCEPT ![s] = user_question[s]]
            /\ called' = [called EXCEPT ![s] = TRUE]
            /\ pc' = [pc EXCEPT ![s] = "generating"]
            /\ UNCHANGED notice

\* lines 184-190, 198, 200: generate_solution returns; reply is what the
\* generation service did
GenerateReturn(s, reply) ==
    /\ pc[s] = "generating"
    /\ UNCHANGED <<config, shared, trigger, user_question, current_question,
                   history_page, called, saved, read_status, past_qas, elements,
                   total_pages, current_page_qas, inflight>>
    /\ LET solution == generate_solution(user_question[s], reply)
       IN  /\ current_solution' = [current_solution EXCEPT ![s] = solution]
           /\ solution_generated' = [solution_generated EXCEPT ![s] = TRUE]
           /\ IF ~generation_succeeded(solution)
              THEN EndHandler(s, "error: generation failed, not saved")
              ELSE IF ~firebase_initialized
              THEN EndHandler(s, "warning: Firebase not initialized, not saved")
              ELSE /\ notice' = [notice EXCEPT ![s] = "none"]
                   /\ pc' = [pc EXCEPT ![s] = "saving"]

\* lines 191-196 with 84-100: save_qa_to_firestore; write_raises is whether
\* qa_collection.add raises
SaveWrite(s, write_raises) ==
    /\ pc[s] = "saving"
    /\ UNCHANGED <<config, deletes, cache, trigger, user_question, session, called,
                   read_status, past_qas, elements, total_pages,
                   current_page_qas, inflight>>
    /\ IF save_qa_to_firestore(user_question[s], current_solution[s],
                               write_raises)
       THEN /\ store' = add(store, NewDoc(user_question[s], current_solution[s]))
            /\ clock' = clock + 1
            /\ appends' = appends + 1
            /\ notice' = [notice EXCEPT ![s] = "success: saved"]
            /\ saved' = [saved EXCEPT ![s] = clock + 1]
            /\ pc' = [pc EXCEPT ![s] = "clear"]
       ELSE /\ EndHandler(s, "error: failed to save")
            /\ UNCHANGED <<store, clock, appends, saved>>

\* line 194: st.cache_data.clear(); queries of other sessions that are
\* under way were started before it
ClearCache(s) ==
    /\ pc[s] = "clear"
    /\ cache' = <<>>
    /\ cleared' = [t \in Sessions |->
                      IF pc[t] \in {"reading", "filling"} THEN TRUE ELSE cleared[t]]
    /\ pc' = [pc EXCEPT ![s] = "history"]
    /\ UNCHANGED <<config, store, clock, appends, deletes, trigger,
                   user_question, session, display, fetched>>

(***************************************************************************)
(* The script run: the history section.                                    *)
(***************************************************************************)
\* the history section shows no list: lines 219 and 257
NoList(s) ==
    /\ label_page' = [label_page EXCEPT ![s] = 0]
    /\ buttons' = [buttons EXCEPT ![s] = {}]
    /\ total_pages' = [total_pages EXCEPT ![s] = 0]
    /\ current_page_qas' = [current_page_qas EXCEPT ![s] = <<>>]
    /\ pc' = [pc EXCEPT ![s] = "idle"]

\* line 216: past_qas is bound to what get_past_qa_from_firestore returned
Obtained(s, status, list) ==
    /\ read_status' = [read_status EXCEPT ![s] = status]
    /\ past_qas' = [past_qas EXCEPT ![s] = list]
    /\ pc' = [pc EXCEPT ![s] = "render"]

\* lines 204-216 and 257: the solution panel and the lookup of the cached
\* list; a hit returns the stored value, a miss starts the query
HistoryLookup(s) ==
    /\ pc[s] = "history"
    /\ UNCHANGED <<config, shared, trigger, user_question, session, notice,
                   called, saved, fetched>>
    /\ IF ~firebase_initialized
       THEN /\ read_status' = [read_status EXCEPT ![s] = "off"]
            /\ past_qas' = [past_qas EXCEPT ![s] = <<>>]
            /\ NoList(s)
            /\ UNCHANGED cleared
       ELSE IF cache # <<>>
       THEN /\ Obtained(s, IF cache[1].faulted THEN "replayed" ELSE "cached",
                        cache[1].value)
            /\ UNCHANGED <<elements, total_pages, current_page_qas, cleared>>
       ELSE /\ pc' = [pc EXCEPT ![s] = "reading"]
            /\ cleared' = [cleared EXCEPT ![s] = FALSE]
            /\ UNCHANGED <<read_status, past_qas, elements, total_pages,
                           current_page_qas>>

\* lines 108-123: the query of the collection returns or raises
HistoryRead(s, read_raises) ==
    /\ pc[s] = "reading"
    /\ fetched' = [fetched EXCEPT ![s] = Fetched(read_raises)]
    /\ pc' = [pc EXCEPT ![s] = "filling"]
    /\ UNCHANGED <<config, shared, trigger, user_question, session, display,
                   cleared>>

\* lines 102 and 216: st.cache_data stores the returned list and the call
\* returns it.  Whether a list whose query started before a clear() still
\* reaches the entry read after it is up to st.cache_data: both are allowed.
HistoryFill(s, stored) ==
    /\ pc[s] = "filling"
    /\ stored \/ cleared[s]
    /\ cache' = IF stored THEN cache_entry(fetched[s]) ELSE cache
    /\ fetched' = [fetched EXCEPT ![s] = NothingFetched]
    /\ cleared' = [cleared EXCEPT ![s] = FALSE]
    /\ Obtained(s, IF fetched[s].faulted THEN "raised" ELSE "read",
                fetched[s].value)
    /\ UNCHANGED <<config, store, clock, appends, deletes, trigger,
                   user_question, session, notice, called, saved, elements,
                   total_pages, current_page_qas>>

\* lines 218-233: the empty list, or the page count and the Previous
\* button; the run is then at st.write, the label not yet written
PaginateStart(s) ==
    /\ pc[s] = "render"
    /\ UNCHANGED <<config, shared, trigger, user_question, current_question,
                   current_solution, solution_generated, notice, called, saved,
                   read_status, past_qas, inflight>>
    /\ IF past_qas[s] = <<>>
       THEN NoList(s) /\ UNCHANGED history_page
       ELSE /\ total_pages' = [total_pages EXCEPT
                                  ![s] = page_count(Len(past_qas[s]))]
            /\ buttons' = [buttons EXCEPT ![s] = @ \cup {"previous"}]
            /\ history_page' = [history_page EXCEPT
                                   ![s] = IF trigger[s] = "previous"
                                          THEN previous(@) ELSE @]
            /\ pc' = [pc EXCEPT ![s] = "paged"]
            /\ UNCHANGED <<label_page, current_page_qas>>

\* line 235: the "Page X of Y" label; the run is then at the Next button
PaginateLabel(s) ==
    /\ pc[s] = "paged"
    /\ label_page' = [label_page EXCEPT ![s] = history_page[s]]
    /\ pc' = [pc EXCEPT ![s] = "label"]
    /\ UNCHANGED <<config, shared, trigger, user_question, session, notice,
                   called, saved, read_status, past_qas, buttons, total_pages,
                   current_page_qas, inflight>>

\* lines 237-257: the Next button, the slice, and the reset of an empty
\* page, which ends the run in st.rerun()
PaginateEnd(s) ==
    /\ pc[s] = "label"
    /\ UNCHANGED <<config, shared, user_question, current_question,
                   current_solution, solution_generated, label_page>>
    /\ buttons' = [buttons EXCEPT ![s] = @ \cup {"next"}]
    /\ LET page == IF trigger[s] = "next"
                   THEN next(history_page[s], total_pages[s])
                   ELSE history_page[s]
           slice == page_slice(past_qas[s], page)
       IN  IF on_empty_page(slice, page)
           THEN /\ history_page' = [history_page EXCEPT
                                       ![s] = page_after_reset(page)]
                /\ NewRun(s, "rerun")
           ELSE /\ history_page' = [history_page EXCEPT ![s] = page]
                /\ current_page_qas' = [current_page_qas EXCEPT ![s] = slice]
                /\ pc' = [pc EXCEPT ![s] = "idle"]
                /\ UNCHANGED <<trigger, notice, called, saved, read_status,
                               past_qas, total_pages, inflight>>

(***************************************************************************)
(* The environment of the program.                                         *)
(***************************************************************************)
\* line 102: ttl=300, the cached list expires
CacheExpire ==
    /\ cache # <<>>
    /\ cache' = <<>>
    /\ UNCHANGED <<config, store, clock, appends, deletes, pc, trigger,
                   user_question, session, display, inflight>>

\* line 246 ("after deleting items"): the k oldest documents are deleted
\* out of band; one page of them, all but the newest, or all
DeleteSizes == {items_per_page, Len(store) - 1, Len(store)}

AdminDelete(k) ==
    /\ deletes < MaxDeletes
    /\ k \in 1..Len(store)
    /\ store' = SubSeq(store, k + 1, Len(store))
    /\ deletes' = deletes + 1
    /\ UNCHANGED <<config, clock, appends, cache, pc, trigger, user_question,
                   session, display, inflight>>

(***************************************************************************)
(* Specifications.                                                         *)
(***************************************************************************)
InitOf(S, seeds) ==
    /\ GEMINI_API_KEY \in BOOLEAN
    /\ model \in BOOLEAN
    /\ model => GEMINI_API_KEY
    /\ firebase_initialized \in BOOLEAN
    /\ \E n \in seeds : store = Seed(n) /\ clock = n
    /\ appends = 0
    /\ deletes = 0
    /\ cache = <<>>
    /\ pc = [s \in S |-> "idle"]
    /\ trigger = [s \in S |-> "none"]
    /\ user_question = [s \in S |-> <<>>]
    /\ current_question = [s \in S |-> <<>>]
    /\ current_solution = [s \in S |-> <<>>]
    /\ solution_generated = [s \in S |-> FALSE]
    /\ history_page = [s \in S |-> 1]
    /\ notice = [s \in S |-> "none"]
    /\ called = [s \in S |-> FALSE]
    /\ saved = [s \in S |-> 0]
    /\ read_status = [s \in S |-> "off"]
    /\ past_qas = [s \in S |-> <<>>]
    /\ label_page = [s \in S |-> 0]
    /\ buttons = [s \in S |-> {}]
    /\ total_pages = [s \in S |-> 0]
    /\ current_page_qas = [s \in S |-> <<>>]
    /\ fetched = [s \in S |-> NothingFetched]
    /\ cleared = [s \in S |-> FALSE]

Init == InitOf({1}, {0, MaxSeed})

Next ==
    \/ \E s \in Sessions, q \in Questions : ClickGenerate(s, q)
    \/ \E s \in Sessions : ClickPrevious(s)
    \/ \E s \in Sessions : ClickNext(s)
    \/ \E s \in Sessions : Reload(s)
    \/ \E s \in Sessions : TopSection(s)
    \/ \E s \in Sessions : GenerateStart(s)
    \/ \E s \in Sessions, reply \in Replies : GenerateReturn(s, reply)
    \/ \E s \in Sessions, write_raises \in BOOLEAN : SaveWrite(s, write_raises)
    \/ \E s \in Sessions : ClearCache(s)
    \/ \E s \in Sessions : HistoryLookup(s)
    \/ \E s \in Sessions, read_raises \in BOOLEAN : HistoryRead(s, read_raises)
    \/ \E s \in Sessions, stored \in BOOLEAN : HistoryFill(s, stored)
    \/ \E s \in Sessions : PaginateStart(s)
    \/ \E s \in Sessions : PaginateLabel(s)
    \/ \E s \in Sessions : PaginateEnd(s)
    \/ CacheExpire
    \/ \E k \in DeleteSizes : AdminDelete(k)

Spec == Init /\ [][Next]_vars

\* two browser sessions served by the same process, fully configured:
\* session 1 asks questions while session 2 browses the history
ConcInit ==
    /\ InitOf({1, 2}, {1})
    /\ GEMINI_API_KEY
    /\ model
    /\ firebase_initialized

ConcNext ==
    \/ \E q \in Questions : ClickGenerate(1, q)
    \/ ClickPrevious(2)
    \/ ClickNext(2)
    \/ \E s \in Sessions : Reload(s)
    \/ \E s \in Sessions : TopSection(s)
    \/ GenerateStart(1)
    \/ \E reply \in Replies : GenerateReturn(1, reply)
    \/ \E write_raises \in BOOLEAN : SaveWrite(1, write_raises)
    \/ ClearCache(1)
    \/ \E s \in Sessions : HistoryLookup(s)
    \/ \E s \in Sessions, read_raises \in BOOLEAN : HistoryRead(s, read_raises)
    \/ \E s \in Sessions, stored \in BOOLEAN : HistoryFill(s, stored)
    \/ \E s \in Sessions : PaginateStart(s)
    \/ \E s \in Sessions : PaginateLabel(s)
    \/ \E s \in Sessions : PaginateEnd(s)
    \/ CacheExpire
    \/ \E k \in DeleteSizes : AdminDelete(k)

ConcSpec == ConcInit /\ [][ConcNext]_vars

(***************************************************************************)
(* Vocabulary of the properties.                                           *)
(***************************************************************************)
\* a step of the Generate handler of session s (or the event that stops it)
HandlerStep(s) ==
    /\ trigger[s] = "generate"
    /\ pc[s] \in {"script", "generating", "saving"}
    /\ pc'[s] # pc[s]

\* the step of session s that obtains the list of the history section
ObtainStep(s) == pc[s] \in {"history", "filling"} /\ pc'[s] = "render"

\* the first step of the pagination of session s: the Previous button
PreviousStep(s) == pc[s] = "render" /\ pc'[s] = "paged"

\* the step of session s that completes the render of a non-empty list, or
\* ends it in st.rerun()
RenderStep(s) ==
    /\ pc[s] = "label"
    /\ \/ pc'[s] = "idle"
       \/ pc'[s] = "script" /\ trigger'[s] = "rerun"

\* a step of a run of session s after its handler
LaterStep(s) ==
    /\ pc[s] \in {"clear", "history", "reading", "filling", "render", "paged",
                "label"}
    /\ pc'[s] # pc[s]

\* the session state the Generate handler may change
Unchanged(s) ==
    /\ current_question'[s] = current_question[s]
    /\ current_solution'[s] = current_solution[s]
    /\ solution_generated'[s] = solution_generated[s]

\* a text of whitespace only
IsBlank(t) == \A i \in 1..Len(t) : t[i] = " "

\* ceil(n / items_per_page)
PagesFor(n) ==
    CHOOSE p \in 0..n : p * items_per_page >= n /\ (p - 1) * items_per_page < n

\* the store grew by at most one record, at its end
GrewByAtMostOne ==
    \/ store' = store
    \/ /\ Len(store') = Len(store) + 1
       /\ SubSeq(store', 1, Len(store)) = store

(***************************************************************************)
(* C1: a Generate action writes a record only if the text returned by      *)
(* generate_solution is non-empty, does not start with the failure         *)
(* sentinel, and the store is initialized; in every other case the         *)
(* records are unchanged; no action writes more than one record.           *)
(***************************************************************************)
GenerateWritesOnlyOnSuccess ==
    [][\A s \in Sessions :
          /\ HandlerStep(s) =>
                /\ GrewByAtMostOne
                /\ store' # store =>
                      /\ called'[s]
                      /\ current_solution'[s] # <<>>
                      /\ ~startswith(current_solution'[s], Sentinel)
                      /\ firebase_initialized
          /\ LaterStep(s) => store' = store]_vars

GenerateWroteOneRecord ==
    \E s \in Sessions :
        /\ pc[s] = "idle"
        /\ notice[s] = "success: saved"
        /\ store # <<>>
        /\ store[Len(store)].timestamp = saved[s]
        /\ store[Len(store)].solution = current_solution[s]

(***************************************************************************)
(* C2: with no generator configured (no API key, or a key but model is     *)
(* None) a Generate action reports a problem and changes neither the       *)
(* current question, the current solution, the generated flag nor the      *)
(* records.                                                                *)
(***************************************************************************)
Problems ==
    {"error: API key not configured", "warning: please enter a question",
     "error: generation failed, not saved", "error: failed to save",
     "warning: Firebase not initialized, not saved"}

NoGeneratorGenerateIsNoOp ==
    [][\A s \in Sessions :
          HandlerStep(s) /\ ~(GEMINI_API_KEY /\ model) =>
              /\ pc'[s] \in {"history", "clear"} => notice'[s] \in Problems
              /\ Unchanged(s)
              /\ store' = store]_vars

(***************************************************************************)
(* C3, as claimed: for an input that is empty or whitespace only, a        *)
(* Generate action never invokes generate_solution, shows the warning,     *)
(* and leaves question, solution, flag and records unchanged.              *)
(***************************************************************************)
BlankInputWarns ==
    [][\A s \in Sessions :
          HandlerStep(s) /\ IsBlank(user_question[s]) =>
              /\ pc[s] = "script" /\ pc'[s] = "history"
              /\ ~called'[s]
              /\ notice'[s] = "warning: please enter a question"
              /\ Unchanged(s)
              /\ store' = store]_vars

(***************************************************************************)
(* C3, amended: for an input that is empty or whitespace only, a Generate  *)
(* action never invokes generate_solution and leaves question, solution,   *)
(* flag and records unchanged; it shows the warning when the API key is    *)
(* configured and the missing-key error when it is not.                    *)
(***************************************************************************)
BlankInputIsNoOp ==
    [][\A s \in Sessions :
          HandlerStep(s) /\ IsBlank(user_question[s]) =>
              /\ pc[s] = "script" /\ pc'[s] = "history"
              /\ ~called'[s]
              /\ notice'[s] = IF GEMINI_API_KEY
                              THEN "warning: please enter a question"
                              ELSE "error: API key not configured"
              /\ Unchanged(s)
              /\ store' = store]_vars

BlankInputAfterSolution ==
    \E s \in Sessions :
        /\ pc[s] = "idle"
        /\ trigger[s] = "generate"
        /\ user_question[s] = <<" ">>
        /\ notice[s] = "warning: please enter a question"
        /\ solution_generated[s]
        /\ current_solution[s] = <<"x">>

(***************************************************************************)
(* C4, as claimed: at the end of every completed render of the history     *)
(* section the page number lies in [1, ceil(N/5)] for the N records the    *)
(* render obtained, and is 1 when N = 0.                                   *)
(***************************************************************************)
PageAlwaysClamped ==
    \A s \in Sessions :
        pc[s] = "idle" /\ read_status[s] # "off" =>
            IF past_qas[s] = <<>>
            THEN history_page[s] = 1
            ELSE history_page[s] \in 1..PagesFor(Len(past_qas[s]))

(***************************************************************************)
(* C4, amended: at the end of every completed render that obtained N > 0   *)
(* records the page number lies in [1, ceil(N/5)]; a render that obtains   *)
(* no records leaves the page number as it was.                            *)
(***************************************************************************)
PageClampedWhenRecords ==
    /\ [](\A s \in Sessions :
             pc[s] = "idle" /\ past_qas[s] # <<>> =>
                 history_page[s] \in 1..PagesFor(Len(past_qas[s])))
    /\ [][\A s \in Sessions :
             /\ ObtainStep(s) => history_page'[s] = history_page[s]
             /\ pc[s] = "render" /\ pc'[s] # pc[s] /\ past_qas[s] = <<>> =>
                    /\ history_page'[s] = history_page[s]
                    /\ pc'[s] \in {"idle", "script"}
                    /\ pc'[s] = "script" => trigger'[s] # "rerun"]_vars

LastPageAfterShrink ==
    \E s \in Sessions :
        /\ pc[s] = "idle"
        /\ Len(past_qas[s]) = MaxSeed - items_per_page
        /\ history_page[s] = PagesFor(Len(past_qas[s]))
        /\ history_page[s] > 1
        /\ deletes > 0

(***************************************************************************)
(* C6: every persisted record has a non-empty question and a non-empty     *)
(* solution, and no step of the program (only an out-of-band deletion)     *)
(* modifies or removes a record: the collection only grows by appends.     *)
(***************************************************************************)
RecordsNonEmptyAndImmutable ==
    /\ [](\A i \in 1..Len(store) :
             store[i].question # <<>> /\ store[i].solution # <<>>)
    /\ [][deletes' = deletes =>
             /\ Len(store') >= Len(store)
             /\ SubSeq(store', 1, Len(store)) = store]_vars

RecordAppendedToSeeds ==
    \E s \in Sessions :
        /\ saved[s] = MaxSeed + 1
        /\ Len(store) = MaxSeed + 1
        /\ store[Len(store)].question = <<" ", "x">>

(***************************************************************************)
(* C7, as claimed: for N > 0 records, Previous decrements the page by      *)
(* exactly 1 when page > 1 and leaves it at page 1, Next increments it by  *)
(* exactly 1 when page < ceil(N/5) and leaves it at the last page, and     *)
(* the records shown are elements [(page-1)*5, min(page*5, N)) of the      *)
(* newest-first list.                                                      *)
(***************************************************************************)
ShownIsPageOf(s) ==
    current_page_qas'[s] =
        SubSeq(past_qas'[s], (history_page'[s] - 1) * items_per_page + 1,
               Min(history_page'[s] * items_per_page, Len(past_qas'[s])))

PagingByOne ==
    [][\A s \in Sessions :
          LET last == PagesFor(Len(past_qas[s]))
              page == history_page[s]
          IN  /\ PreviousStep(s) =>
                     history_page'[s] = IF trigger[s] = "previous" /\ page > 1
                                        THEN page - 1 ELSE page
              /\ RenderStep(s) =>
                     /\ trigger[s] = "previous" => history_page'[s] = page
                     /\ trigger[s] = "next" /\ page < last =>
                            history_page'[s] = page + 1
                     /\ trigger[s] = "next" /\ page = last =>
                            history_page'[s] = page
                     /\ pc'[s] = "idle" => ShownIsPageOf(s)]_vars

(***************************************************************************)
(* C7, amended: for N > 0 records, Previous decrements the page by exactly *)
(* 1 when page > 1 and page - 1 is at most ceil(N/5), leaves it at page 1, *)
(* and resets it to 1 when page - 1 lies beyond ceil(N/5); Next increments *)
(* it by exactly 1 when page < ceil(N/5), leaves it at the last page and   *)
(* resets it to 1 when the page lies beyond ceil(N/5); the records a       *)
(* completed render shows are elements [(page-1)*5, min(page*5, N)) of the *)
(* newest-first list.                                                      *)
(***************************************************************************)
PagingByOneWithinPages ==
    [][\A s \in Sessions :
          LET last == PagesFor(Len(past_qas[s]))
              page == history_page[s]
          IN  /\ PreviousStep(s) =>
                     history_page'[s] = IF trigger[s] = "previous" /\ page > 1
                                        THEN page - 1 ELSE page
              /\ RenderStep(s) =>
                     /\ trigger[s] = "previous" =>
                            history_page'[s] = IF page <= last THEN page ELSE 1
                     /\ trigger[s] = "next" =>
                            history_page'[s] = IF page < last THEN page + 1
                                               ELSE IF page = last THEN page
                                               ELSE 1
                     /\ pc'[s] = "idle" => ShownIsPageOf(s)]_vars

NextOnLastPageOfTwelve ==
    \E s \in Sessions :
        /\ pc[s] = "idle"
        /\ trigger[s] = "next"
        /\ Len(past_qas[s]) = 12
        /\ label_page[s] = 3
        /\ history_page[s] = 3
        /\ current_page_qas[s] = <<past_qas[s][11], past_qas[s][12]>>

(***************************************************************************)
(* C9: a render whose page is greater than 1 and whose slice of the N > 0  *)
(* records is empty resets the page to 1 and forces a redisplay; the       *)
(* forced redisplay forces no further one and completes on page 1,         *)
(* showing the first page when it obtains records.                         *)
(***************************************************************************)
PageAfterNext(s, last) ==
    IF trigger[s] = "next" /\ history_page[s] < last THEN history_page[s] + 1
    ELSE history_page[s]

ForcedRedisplayOnce ==
    [][\A s \in Sessions :
          /\ RenderStep(s) =>
                LET n == Len(past_qas[s])
                    page == PageAfterNext(s, PagesFor(n))
                    empty == page > 1 /\ (page - 1) * items_per_page >= n
                IN  /\ empty => /\ history_page'[s] = 1
                                /\ pc'[s] = "script"
                                /\ trigger'[s] = "rerun"
                    /\ ~empty => pc'[s] = "idle"
                    /\ trigger[s] = "rerun" =>
                           /\ label_page[s] = 1
                           /\ current_page_qas'[s] =
                                  SubSeq(past_qas[s], 1, Min(items_per_page, n))
          /\ trigger[s] = "rerun" /\ pc'[s] # pc[s] =>
                /\ history_page[s] = 1
                /\ history_page'[s] = 1
                /\ pc'[s] = "script" => trigger'[s] # "rerun"]_vars

ForcedRedisplayShowsFirstPage ==
    \E s \in Sessions :
        /\ pc[s] = "idle"
        /\ trigger[s] = "rerun"
        /\ history_page[s] = 1
        /\ label_page[s] = 1
        /\ current_page_qas[s] # <<>>

(***************************************************************************)
(* C10: in every completed render that shows the pagination, the page      *)
(* number of the "Page X of Y" label is the page number whose slice of     *)
(* records the render shows.                                               *)
(***************************************************************************)
LabelMatchesSlice ==
    \A s \in Sessions :
        pc[s] = "idle" /\ label_page[s] > 0 => label_page[s] = history_page[s]

(***************************************************************************)
(* C8: a store read that raises yields the empty list for the render that  *)
(* triggered it and leaves the session's question, solution, flag and      *)
(* page unchanged; no other render is served the empty result of the       *)
(* fault in place of the records the store holds.                          *)
(***************************************************************************)
ReadFaultConfined ==
    [][\A s \in Sessions :
          ObtainStep(s) =>
              /\ read_status'[s] = "raised" =>
                    /\ past_qas'[s] = <<>>
                    /\ Unchanged(s)
                    /\ history_page'[s] = history_page[s]
              /\ read_status'[s] = "replayed" => store = <<>>]_vars

(***************************************************************************)
(* C5: after a session's successful append and the cache invalidation      *)
(* that follows it, the list its history section obtains next starts with  *)
(* the appended record, when no other append came in between, the record   *)
(* is still the newest of the store and the session's own read did not     *)
(* raise, whatever other sessions read through the shared cache.           *)
(***************************************************************************)
OwnRecordListedFirst ==
    [][\A s \in Sessions :
          /\ ObtainStep(s)
          /\ saved[s] # 0
          /\ read_status'[s] # "raised"
          /\ store # <<>>
          /\ store[Len(store)].timestamp = saved[s]
          => /\ past_qas'[s] # <<>>
             /\ past_qas'[s][1].timestamp = isoformat(saved[s])]_vars

====
